---- MODULE Spec2Model ----
(***************************************************************************)
(* Room coordination core of src/server.js: the rooms Map, the Room        *)
(* objects (membership, playback state, lifecycle timers), the per-socket  *)
(* session and the socket.io event handlers.                               *)
(*                                                                         *)
(* Time is counted in minutes: `now` = n stands for the reading           *)
(* Date.now() = 60000 * n ms, so the clock is read at whole minutes only   *)
(* (the millisecond values of the code exceed the model checker's 32-bit   *)
(* integers).  A timer is due once the clock has reached its deadline and  *)
(* may run late: any handler that is ready may run before it.  Every       *)
(* handler runs to completion (one action each).  `out` holds what the     *)
(* last handler did that others can observe, in program order: the         *)
(* messages it emitted and the places where it bound the session or        *)
(* deleted a registry entry.                                               *)
(***************************************************************************)
EXTENDS Integers, Sequences, FiniteSets, TLC

\* ---- bounds of the model ----
MaxMinutes == 2
MaxOps == 3

\* ---- program constants ----
\* 2 * 60 * 1000 ms and 60 * 1000 ms in minutes, and the largest whole number of
\* minutes a timer takes: 35791 * 60000 ms <= 2^31 - 1 ms < 35792 * 60000 ms
GraceMin == 2
SweepMin == 1
TimeoutMaxMin == 35791

\* ---- input domains ----
Sockets == {1, 2}
\* the Room objects the model lets the server allocate
Objects == {1, 2}
RoomNames == {"a"}
JoinNames == {"a", "b"}
JoiningIds == {"j"}
AdminPasswords == {"pw"}
JoinPasswords == {"", "pw", "x"}
Usernames == {"u"}
Durations == {0, 1, 35792}
ApiKeys == {""}
NewApiKeys == {"k"}
Times == {10}
VideoIds == {"v2"}
\* the clock readings the model explores
Readings == 0..MaxMinutes

DefaultVideo == "uzwgt8uGt90"

\* JavaScript's undefined as the value of a missing numeric field (data.time),
\* the NaN that arithmetic on it gives, and undefined as a missing videoId;
\* the times a client sends are not negative
Undefined == -1
NaN == -2
UndefinedVideo == "undefined"
NoRoom == <<>>

VARIABLES now, rooms, heap, socket, sweepDue, phase, out, ops

vars == <<now, rooms, heap, socket, sweepDue, phase, out, ops>>

\* ---- timers (setTimeout / clearTimeout handles) ----
NullTimer == [set |-> FALSE, active |-> FALSE, due |-> 0]

\* the runtime sets a delay below 1 ms or beyond the signed 32-bit limit to 1 ms
Clamped(min) == min < 1 \/ min > TimeoutMaxMin

\* fault: the timer is never scheduled
setTimeoutNever(t, min) == [set |-> TRUE, active |-> FALSE, due |-> 0]

\* setTimeout at reading t with a delay of `min` minutes; a clamped timer (1 ms)
\* is due at the first reading after t, which is t + 1
setTimeout(t, min) ==
  [set |-> TRUE, active |-> TRUE, due |-> IF Clamped(min) THEN t + 1 ELSE t + min]

clearTimeout(tm) == IF tm.set THEN [tm EXCEPT !.active = FALSE, !.due = 0] ELSE tm

\* ---- the rooms Map: entries [key, val] in insertion order ----
MapHas(m, k) == \E i \in 1..Len(m) : m[i].key = k

MapGet(m, k) == m[CHOOSE i \in 1..Len(m) : m[i].key = k].val

MapSet(m, k, v) ==
  IF MapHas(m, k)
  THEN [i \in 1..Len(m) |-> IF m[i].key = k THEN [key |-> k, val |-> v] ELSE m[i]]
  ELSE Append(m, [key |-> k, val |-> v])

MapDelete(m, k) == SelectSeq(m, LAMBDA e : e.key # k)

\* ---- class Room ----
Room(t, roomId, roomName, adminPassword, joiningId, duration, apiKey) ==
  [roomId |-> roomId, roomName |-> roomName, adminPassword |-> adminPassword,
   joiningId |-> joiningId, admins |-> {}, normalUsers |-> {},
   currentVideo |-> DefaultVideo, isPlaying |-> FALSE, currentTime |-> 0,
   lastUpdate |-> t, createdAt |-> t, duration |-> duration,
   expiresAt |-> t + duration, apiKey |-> apiKey,
   autoDestroyTimer |-> NullTimer,
   roomDestructionTimer |->
     IF duration > 0 THEN setTimeout(t, duration) ELSE NullTimer,
   destroyed |-> << >>]

\* fault: the timer is left running
cancelAutoDestroyKeeps(r) == r

cancelAutoDestroy(r) ==
  IF r.autoDestroyTimer.set THEN [r EXCEPT !.autoDestroyTimer = NullTimer] ELSE r

\* fault: an admin is added without cancelling the no-admin timer
addAdminNoCancel(r, socketId) == [r EXCEPT !.admins = @ \cup {socketId}]

addAdmin(r, socketId) == cancelAutoDestroy([r EXCEPT !.admins = @ \cup {socketId}])

\* fault: a join without the matching password lands in the admin set
addNormalUserAsAdmin(r, socketId) == [r EXCEPT !.admins = @ \cup {socketId}]

addNormalUser(r, socketId) == [r EXCEPT !.normalUsers = @ \cup {socketId}]

\* fault: no timer is started
startAutoDestroyIdle(r, t) == r

startAutoDestroy(r, t) ==
  [r EXCEPT !.autoDestroyTimer = setTimeout(t, GraceMin)]

\* fault: the last admin's place is given to a viewer instead of starting the timer
removeUserPromotes(r, socketId, t) ==
  LET r1 == [r EXCEPT !.admins = @ \ {socketId}, !.normalUsers = @ \ {socketId}]
  IN IF socketId \in r.admins /\ r1.admins = {} /\ r1.normalUsers # {}
     THEN [r1 EXCEPT !.admins = r1.normalUsers, !.normalUsers = {}]
     ELSE r1

\* fault: the last admin leaves and no timer is started
removeUserNoTimer(r, socketId, t) ==
  [r EXCEPT !.admins = @ \ {socketId}, !.normalUsers = @ \ {socketId}]

removeUser(r, socketId, t) ==
  LET wasAdmin == socketId \in r.admins
      r1 == [r EXCEPT !.admins = @ \ {socketId}, !.normalUsers = @ \ {socketId}]
  IN IF wasAdmin /\ r1.admins = {} THEN startAutoDestroy(r1, t) ELSE r1

\* fault: every member passes the gate
isAdminAnyMember(r, socketId) == socketId \in r.admins \cup r.normalUsers

isAdmin(r, socketId) == socketId \in r.admins

\* fault: a room counts as expired one reading late
hasExpiredLate(r, t) == t > r.expiresAt + 1

hasExpired(r, t) == t > r.expiresAt

Max(a, b) == IF a > b THEN a ELSE b

\* in seconds
getRemainingTime(r, t) == Max(0, (r.expiresAt - t) * 60)

updateState(r, isPlaying, currentTime, t) ==
  [r EXCEPT !.isPlaying = isPlaying, !.currentTime = currentTime, !.lastUpdate = t]

\* fault: the stored position is returned as it is, playing or not
getStateRaw(r, t) ==
  [videoId |-> r.currentVideo, isPlaying |-> r.isPlaying, currentTime |-> r.currentTime,
   adminCount |-> Cardinality(r.admins), userCount |-> Cardinality(r.normalUsers),
   totalUsers |-> Cardinality(r.admins) + Cardinality(r.normalUsers),
   remainingTime |-> getRemainingTime(r, t), hasProMode |-> r.apiKey # "",
   roomName |-> r.roomName]

\* adjustedTime += elapsed
Plus(a, b) == IF a \in {Undefined, NaN} THEN NaN ELSE a + b

getState(r, t) ==
  [videoId |-> r.currentVideo, isPlaying |-> r.isPlaying,
   currentTime |-> IF r.isPlaying THEN Plus(r.currentTime, (t - r.lastUpdate) * 60)
                   ELSE r.currentTime,
   adminCount |-> Cardinality(r.admins), userCount |-> Cardinality(r.normalUsers),
   totalUsers |-> Cardinality(r.admins) + Cardinality(r.normalUsers),
   remainingTime |-> getRemainingTime(r, t), hasProMode |-> r.apiKey # "",
   roomName |-> r.roomName]

\* ---- messages ----
Open(sk) == {c \in Sockets : sk[c].open}

\* io.to(socketId): the socket's own room, empty once the socket has closed
ToSocket(sk, c) == {c} \cap Open(sk)

\* io.to(roomId): every connected socket that has joined the socket.io room
ToRoom(sk, roomId) == {c \in Open(sk) : roomId \in sk[c].joined}

Msg(ev, to, data) == [ev |-> ev, to |-> to, data |-> data]

RECURSIVE SetToSeq(_)
SetToSeq(S) ==
  IF S = {} THEN << >>
  ELSE LET x == CHOOSE y \in S : \A z \in S : y <= z
       IN <<x>> \o SetToSeq(S \ {x})

\* [...this.admins, ...this.normalUsers]; within each Set the sockets are taken
\* in ascending order (the code's insertion order is not kept by the model)
allUsers(r) == SetToSeq(r.admins) \o SetToSeq(r.normalUsers)

destroyMessage(reason) ==
  IF reason = "duration_expired" THEN "Room duration has expired"
  ELSE "Room destroyed - No admin present"

\* Room.destroyRoom on object o of state st = [heap, rooms, out]
destroyRoom(st, sk, o, reason) ==
  LET r == st.heap[o]
      r1 == [r EXCEPT !.autoDestroyTimer = clearTimeout(@),
                      !.roomDestructionTimer = clearTimeout(@),
                      !.destroyed = Append(@, reason)]
      us == allUsers(r)
      notes == [i \in 1..Len(us) |->
                  Msg("room-destroyed", ToSocket(sk, us[i]),
                      [reason |-> reason, message |-> destroyMessage(reason), room |-> o])]
  IN [heap |-> [st.heap EXCEPT ![o] = r1],
      rooms |-> MapDelete(st.rooms, r.roomId),
      out |-> st.out \o notes \o <<Msg("rooms.delete", {}, [roomId |-> r.roomId, room |-> o])>>]

\* ---- initial state: the server has started, every socket is connected ----
NewSocket == [open |-> TRUE, roomId |-> NoRoom, userRole |-> "", username |-> "",
              joined |-> {}]

ClosedSocket == [NewSocket EXCEPT !.open = FALSE]

Init ==
  /\ now = 0
  /\ rooms = << >>
  /\ heap = << >>
  /\ socket = [c \in Sockets |-> NewSocket]
  /\ sweepDue = SweepMin
  /\ phase = "running"
  /\ out = << >>
  /\ ops = 0

\* the process runs: it has neither exited nor died of an uncaught exception
Alive == phase \notin {"exited", "crashed"}

\* a socket's event is handled (ops counts the events handled so far)
Handled(c) ==
  /\ socket[c].open
  /\ ops < MaxOps
  /\ ops' = ops + 1

\* a request arrives from connected socket c; the model follows no request
\* made after SIGTERM, only disconnects, timers and the exit
Event(c) == phase = "running" /\ Handled(c)

Bind(c, roomId, role) ==
  Msg("session.bind", {}, [socket |-> c, roomId |-> roomId, role |-> role])

Denied(c, text) == Msg("permission-denied", {c}, [message |-> text])

\* ---- socket.on('create-room') ----
CreateRoom(c, roomName, username, adminPassword, joiningId, duration, apiKey) ==
  /\ Event(c)
  /\ Len(heap) + 1 \in Objects
  /\ LET roomId == <<roomName, now>>
         o == Len(heap) + 1
         room == addAdmin(Room(now, roomId, roomName, adminPassword, joiningId,
                               duration, apiKey), c)
         sk == [socket EXCEPT ![c] = [@ EXCEPT !.roomId = roomId, !.userRole = "admin",
                                               !.username = username,
                                               !.joined = @ \cup {roomId}]]
     IN /\ heap' = Append(heap, room)
        /\ rooms' = MapSet(rooms, roomId, o)
        /\ socket' = sk
        /\ out' = << Bind(c, roomId, "admin"),
                     Msg("room-created", {c},
                         [roomId |-> roomId, role |-> "admin", username |-> username,
                          state |-> getState(room, now)]) >>
  /\ UNCHANGED <<now, sweepDue, phase>>

\* ---- socket.on('join-room') ----
JoinMatches(m, h, roomName, joiningId, t) ==
  {i \in 1..Len(m) : /\ h[m[i].val].roomName = roomName
                     /\ h[m[i].val].joiningId = joiningId
                     /\ ~hasExpired(h[m[i].val], t)}

JoinRoom(c, roomName, joiningId, adminPassword, username) ==
  /\ Event(c)
  /\ LET found == JoinMatches(rooms, heap, roomName, joiningId, now)
     IN IF found = {}
        THEN /\ out' = << Msg("join-error", {c},
                     [message |-> "Room not found or expired. Please check room name and joining ID."]) >>
             /\ UNCHANGED <<heap, socket>>
        ELSE LET i == CHOOSE j \in found : \A k \in found : j <= k
                 o == rooms[i].val
                 targetRoomId == rooms[i].key
                 asAdmin == adminPassword # "" /\ adminPassword = heap[o].adminPassword
                 role == IF asAdmin THEN "admin" ELSE "user"
                 room == IF asAdmin THEN addAdmin(heap[o], c) ELSE addNormalUser(heap[o], c)
                 sk == [socket EXCEPT ![c] = [@ EXCEPT !.roomId = targetRoomId,
                                                       !.userRole = role,
                                                       !.username = username,
                                                       !.joined = @ \cup {targetRoomId}]]
             IN /\ heap' = [heap EXCEPT ![o] = room]
                /\ socket' = sk
                /\ out' = << Bind(c, targetRoomId, role),
                             Msg("room-joined", {c},
                                 [roomId |-> targetRoomId, role |-> role,
                                  username |-> username, state |-> getState(room, now)]),
                             Msg("user-joined", ToRoom(sk, targetRoomId),
                                 [username |-> username, role |-> role,
                                  adminCount |-> Cardinality(room.admins),
                                  userCount |-> Cardinality(room.normalUsers),
                                  totalUsers |-> Cardinality(room.admins)
                                                 + Cardinality(room.normalUsers)]) >>
  /\ UNCHANGED <<now, rooms, sweepDue, phase>>

\* ---- socket.on('disconnect') ----
Disconnect(c) ==
  /\ Alive /\ Handled(c)
  /\ LET roomId == socket[c].roomId
         sk == [socket EXCEPT ![c] = ClosedSocket]
     IN /\ socket' = sk
        /\ IF roomId # NoRoom /\ MapHas(rooms, roomId)
           THEN LET o == MapGet(rooms, roomId)
                    wasAdmin == c \in heap[o].admins
                    room == removeUser(heap[o], c, now)
                IN /\ heap' = [heap EXCEPT ![o] = room]
                   /\ out' = << Msg("user-left", ToRoom(sk, roomId),
                                    [username |-> socket[c].username,
                                     role |-> socket[c].userRole,
                                     adminCount |-> Cardinality(room.admins),
                                     userCount |-> Cardinality(room.normalUsers),
                                     totalUsers |-> Cardinality(room.admins)
                                                    + Cardinality(room.normalUsers),
                                     noAdminWarning |-> wasAdmin /\ room.admins = {}]) >>
           ELSE /\ out' = << >>
                /\ UNCHANGED heap
  /\ UNCHANGED <<now, rooms, sweepDue, phase>>

\* ---- playback and configuration events (admin only) ----
\* rooms.get(socket.roomId): the object, or 0 for undefined
RoomOf(c) == IF MapHas(rooms, socket[c].roomId) THEN MapGet(rooms, socket[c].roomId) ELSE 0

\* socket.to(roomId): the room's connected sockets except the sender
ToOthers(sk, roomId, c) == ToRoom(sk, roomId) \ {c}

Play(c, time) ==
  /\ Event(c)
  /\ LET o == RoomOf(c)
     IN IF o # 0 /\ isAdmin(heap[o], c)
        THEN /\ heap' = [heap EXCEPT ![o] = updateState(@, TRUE, time, now)]
             /\ out' = << Msg("play", ToOthers(socket, socket[c].roomId, c),
                              [time |-> time, from |-> socket[c].username]) >>
        ELSE /\ out' = IF o # 0 /\ ~isAdmin(heap[o], c)
                       THEN << Denied(c, "Only admins can control playback") >>
                       ELSE << >>
             /\ UNCHANGED heap
  /\ UNCHANGED <<now, rooms, socket, sweepDue, phase>>

Pause(c, time) ==
  /\ Event(c)
  /\ LET o == RoomOf(c)
     IN IF o # 0 /\ isAdmin(heap[o], c)
        THEN /\ heap' = [heap EXCEPT ![o] = updateState(@, FALSE, time, now)]
             /\ out' = << Msg("pause", ToOthers(socket, socket[c].roomId, c),
                              [time |-> time, from |-> socket[c].username]) >>
        ELSE /\ out' = IF o # 0 /\ ~isAdmin(heap[o], c)
                       THEN << Denied(c, "Only admins can control playback") >>
                       ELSE << >>
             /\ UNCHANGED heap
  /\ UNCHANGED <<now, rooms, socket, sweepDue, phase>>

VideoChange(c, videoId) ==
  /\ Event(c)
  /\ LET o == RoomOf(c)
     IN IF o # 0 /\ isAdmin(heap[o], c)
        THEN /\ heap' = [heap EXCEPT ![o] =
                           updateState([@ EXCEPT !.currentVideo = videoId], FALSE, 0, now)]
             /\ out' = << Msg("video-change", ToOthers(socket, socket[c].roomId, c),
                              [videoId |-> videoId, from |-> socket[c].username]) >>
        ELSE /\ out' = IF o # 0 /\ ~isAdmin(heap[o], c)
                       THEN << Denied(c, "Only admins can change videos") >>
                       ELSE << >>
             /\ UNCHANGED heap
  /\ UNCHANGED <<now, rooms, socket, sweepDue, phase>>

\* fault: a seek also pauses
SeekPauses(c, time) ==
  /\ Event(c)
  /\ LET o == RoomOf(c)
     IN IF o # 0 /\ isAdmin(heap[o], c)
        THEN /\ heap' = [heap EXCEPT ![o] = updateState(@, FALSE, time, now)]
             /\ out' = << Msg("seek", ToOthers(socket, socket[c].roomId, c),
                              [time |-> time, from |-> socket[c].username]) >>
        ELSE /\ out' = IF o # 0 /\ ~isAdmin(heap[o], c)
                       THEN << Denied(c, "Only admins can seek video") >>
                       ELSE << >>
             /\ UNCHANGED heap
  /\ UNCHANGED <<now, rooms, socket, sweepDue, phase>>

Seek(c, time) ==
  /\ Event(c)
  /\ LET o == RoomOf(c)
     IN IF o # 0 /\ isAdmin(heap[o], c)
        THEN /\ heap' = [heap EXCEPT ![o] = updateState(@, @.isPlaying, time, now)]
             /\ out' = << Msg("seek", ToOthers(socket, socket[c].roomId, c),
                              [time |-> time, from |-> socket[c].username]) >>
        ELSE /\ out' = IF o # 0 /\ ~isAdmin(heap[o], c)
                       THEN << Denied(c, "Only admins can seek video") >>
                       ELSE << >>
             /\ UNCHANGED heap
  /\ UNCHANGED <<now, rooms, socket, sweepDue, phase>>

UpdateApiKey(c, apiKey) ==
  /\ Event(c)
  /\ LET o == RoomOf(c)
     IN IF o # 0 /\ isAdmin(heap[o], c)
        THEN /\ heap' = [heap EXCEPT ![o].apiKey = apiKey]
             /\ out' = << Msg("pro-mode-updated", ToRoom(socket, socket[c].roomId),
                              [hasProMode |-> apiKey # "",
                               message |-> "PRO mode enabled for all admins"]) >>
        ELSE /\ out' = IF o # 0 /\ ~isAdmin(heap[o], c)
                       THEN << Denied(c, "Only admins can update API key") >>
                       ELSE << >>
             /\ UNCHANGED heap
  /\ UNCHANGED <<now, rooms, socket, sweepDue, phase>>

\* ---- read-only events ----
RequestSync(c) ==
  /\ Event(c)
  /\ LET o == RoomOf(c)
     IN out' = IF o # 0 THEN << Msg("sync-state", {c}, getState(heap[o], now)) >>
               ELSE << >>
  /\ UNCHANGED <<now, rooms, heap, socket, sweepDue, phase>>

RequestTime(c) ==
  /\ Event(c)
  /\ LET o == RoomOf(c)
     IN out' = IF o # 0
               THEN << Msg("time-update", {c},
                           [remainingTime |-> getRemainingTime(heap[o], now)]) >>
               ELSE << >>
  /\ UNCHANGED <<now, rooms, heap, socket, sweepDue, phase>>

\* ---- events that lack a required field or the whole payload ----
\* a TypeError thrown in a listener is caught nowhere: the process dies
Throws ==
  /\ phase' = "crashed"
  /\ out' = << >>
  /\ UNCHANGED <<now, rooms, heap, socket, sweepDue>>

\* create-room without a payload: destructuring undefined throws
CreateRoomNoPayload(c) ==
  /\ Event(c)
  /\ Throws

\* play without a payload: data.time throws once the admin check has passed
PlayNoPayload(c) ==
  /\ Event(c)
  /\ LET o == RoomOf(c)
     IN IF o # 0 /\ isAdmin(heap[o], c)
        THEN Throws
        ELSE /\ out' = IF o # 0 /\ ~isAdmin(heap[o], c)
                       THEN << Denied(c, "Only admins can control playback") >>
                       ELSE << >>
             /\ UNCHANGED <<now, rooms, heap, socket, sweepDue, phase>>

\* ---- timer callbacks ----
Install(st) ==
  /\ heap' = st.heap
  /\ rooms' = st.rooms
  /\ out' = st.out

Fired(h, o, field) == [h EXCEPT ![o][field] = [@ EXCEPT !.active = FALSE, !.due = 0]]

\* the callback set in the constructor (duration timer)
FireRoomDestruction(o) ==
  /\ Alive
  /\ o \in 1..Len(heap)
  /\ heap[o].roomDestructionTimer.active
  /\ now >= heap[o].roomDestructionTimer.due
  /\ Install(destroyRoom([heap |-> Fired(heap, o, "roomDestructionTimer"),
                          rooms |-> rooms, out |-> << >>],
                         socket, o, "duration_expired"))
  /\ UNCHANGED <<now, socket, sweepDue, phase, ops>>

\* the callback set by startAutoDestroy (no-admin grace timer)
FireAutoDestroy(o) ==
  /\ Alive
  /\ o \in 1..Len(heap)
  /\ heap[o].autoDestroyTimer.active
  /\ now >= heap[o].autoDestroyTimer.due
  /\ Install(destroyRoom([heap |-> Fired(heap, o, "autoDestroyTimer"),
                          rooms |-> rooms, out |-> << >>],
                         socket, o, "no_admin"))
  /\ UNCHANGED <<now, socket, sweepDue, phase, ops>>

\* ---- setInterval: periodic cleanup of expired rooms ----
RECURSIVE sweepFrom(_, _, _, _)
sweepFrom(st, sk, i, t) ==
  IF i > Len(st.rooms) THEN st
  ELSE LET o == st.rooms[i].val
       IN IF hasExpired(st.heap[o], t)
          THEN sweepFrom(destroyRoom(st, sk, o, "duration_expired"), sk, i, t)
          ELSE sweepFrom(st, sk, i + 1, t)

Cleanup ==
  /\ Alive
  /\ now >= sweepDue
  /\ Install(sweepFrom([heap |-> heap, rooms |-> rooms, out |-> << >>], socket, 1, now))
  /\ sweepDue' = now + SweepMin
  /\ UNCHANGED <<now, socket, phase, ops>>

\* ---- process.on('SIGTERM') ----
\* fault: the pass stops after the first entry it deletes
shutdownAllSkips(st, sk) ==
  IF Len(st.rooms) = 0 THEN st
  ELSE destroyRoom(st, sk, st.rooms[1].val, "server_shutdown")

RECURSIVE shutdownAll(_, _)
shutdownAll(st, sk) ==
  IF Len(st.rooms) = 0 THEN st
  ELSE shutdownAll(destroyRoom(st, sk, st.rooms[1].val, "server_shutdown"), sk)

Sigterm ==
  /\ phase = "running"
  /\ Install(shutdownAll([heap |-> heap, rooms |-> rooms, out |-> << >>], socket))
  /\ phase' = "closing"
  /\ UNCHANGED <<now, socket, sweepDue, ops>>

\* http.close's callback: the last connection has ended, process.exit(0)
Exit ==
  /\ phase = "closing"
  /\ Open(socket) = {}
  /\ phase' = "exited"
  /\ out' = << >>
  /\ UNCHANGED <<now, rooms, heap, socket, sweepDue, ops>>

\* ---- the clock ----
Tick(t) ==
  /\ Alive
  /\ t > now
  /\ now' = t
  /\ out' = << >>
  /\ UNCHANGED <<rooms, heap, socket, sweepDue, phase, ops>>

\* client events that read or write playback state and configuration
Playback ==
  \/ \E c \in Sockets, t \in Times : Play(c, t)
  \/ \E c \in Sockets, t \in Times : Pause(c, t)
  \/ \E c \in Sockets, v \in VideoIds : VideoChange(c, v)
  \/ \E c \in Sockets, t \in Times : Seek(c, t)
  \/ \E c \in Sockets, k \in NewApiKeys : UpdateApiKey(c, k)
  \/ \E c \in Sockets : RequestSync(c)
  \/ \E c \in Sockets : RequestTime(c)

\* room creation, membership, timers, shutdown and the clock
Lifecycle ==
  \/ \E c \in Sockets, n \in RoomNames, u \in Usernames, p \in AdminPasswords,
        j \in JoiningIds, d \in Durations, k \in ApiKeys :
        CreateRoom(c, n, u, p, j, d, k)
  \/ \E c \in Sockets, n \in JoinNames, j \in JoiningIds, p \in JoinPasswords,
        u \in Usernames : JoinRoom(c, n, j, p, u)
  \/ \E c \in Sockets : Disconnect(c)
  \/ \E o \in Objects : FireRoomDestruction(o)
  \/ \E o \in Objects : FireAutoDestroy(o)
  \/ Cleanup
  \/ Sigterm
  \/ Exit
  \/ \E t \in Readings : Tick(t)

Next == Lifecycle \/ Playback

\* client events with a payload that lacks the time or the videoId, or with no
\* payload
Malformed ==
  \/ \E c \in Sockets : Play(c, Undefined)
  \/ \E c \in Sockets : Pause(c, Undefined)
  \/ \E c \in Sockets : Seek(c, Undefined)
  \/ \E c \in Sockets : VideoChange(c, UndefinedVideo)
  \/ \E c \in Sockets : CreateRoomNoPayload(c)
  \/ \E c \in Sockets : PlayNoPayload(c)

\* the whole server
Spec == Init /\ [][Next]_vars

\* the server under clients that send no playback or configuration event
LifeSpec == Init /\ [][Lifecycle]_vars

\* the server under clients that also send events with missing fields
InputSpec == Init /\ [][Lifecycle \/ Malformed]_vars

\* LifeSpec with time passing and the event loop running every timer and
\* interval callback that is due
LiveSpec ==
  /\ LifeSpec
  /\ WF_vars(\E t \in Readings : Tick(t))
  /\ WF_vars(Cleanup)
  /\ \A o \in Objects : WF_vars(FireRoomDestruction(o))
  /\ \A o \in Objects : WF_vars(FireAutoDestroy(o))

\* ---------------------------------------------------------------------------
\* Properties
\* ---------------------------------------------------------------------------
InRegistry(o) == \E i \in 1..Len(rooms) : rooms[i].val = o

Members(r) == r.admins \cup r.normalUsers

Destroyed(h, o, reason) == \E i \in 1..Len(h[o].destroyed) : h[o].destroyed[i] = reason

\* object o is destroyed in this step, with this reason
DestroyedNow(o, reason) ==
  /\ o \in DOMAIN heap
  /\ Len(heap'[o].destroyed) = Len(heap[o].destroyed) + 1
  /\ heap'[o].destroyed[Len(heap'[o].destroyed)] = reason

\* socket c is told in `msgs` that room o was destroyed for this reason
Notified(msgs, c, o, reason) ==
  \E i \in 1..Len(msgs) : /\ msgs[i].ev = "room-destroyed"
                          /\ msgs[i].data.room = o
                          /\ msgs[i].data.reason = reason
                          /\ c \in msgs[i].to

\* C1: a room in the registry whose admin set is non-empty has no pending
\* no-admin auto-destroy timer.
C1_AdminMeansNoPendingDestroy ==
  \A o \in DOMAIN heap :
    (InRegistry(o) /\ heap[o].admins # {}) => ~heap[o].autoDestroyTimer.active

\* C1 witness: after another socket has disconnected, a socket has just joined
\* a registered room as its only admin, and the timer is not pending.
C1_Witness ==
  /\ Len(out) = 3 /\ out[2].ev = "room-joined" /\ out[2].data.role = "admin"
  /\ out[2].data.state.adminCount = 1
  /\ \E c \in Sockets : ~socket[c].open
  /\ \E o \in DOMAIN heap : /\ InRegistry(o) /\ heap[o].roomId = out[2].data.roomId
                            /\ heap[o].admins # {}
                            /\ ~heap[o].autoDestroyTimer.active

\* the gated events of socket c
GatedEvent(c) ==
  \/ \E t \in Times : Play(c, t)
  \/ \E t \in Times : Pause(c, t)
  \/ \E t \in Times : Seek(c, t)
  \/ \E v \in VideoIds : VideoChange(c, v)
  \/ \E k \in NewApiKeys : UpdateApiKey(c, k)

PlaybackOf(r) ==
  <<r.currentVideo, r.isPlaying, r.currentTime, r.lastUpdate, r.apiKey>>

\* C2: a play, pause, seek, video-change or update-api-key event from a socket
\* that is bound to an existing room and is not in its admin set changes no
\* room's playback state or API key, and sends exactly one message: a
\* permission-denied to the requester alone.
C2_NonAdminDenied ==
  [][\A c \in Sockets :
       (/\ GatedEvent(c)
        /\ MapHas(rooms, socket[c].roomId)
        /\ c \notin heap[MapGet(rooms, socket[c].roomId)].admins)
       => /\ \A o \in DOMAIN heap : PlaybackOf(heap'[o]) = PlaybackOf(heap[o])
          /\ Len(out') = 1
          /\ out'[1].ev = "permission-denied"
          /\ out'[1].to = {c}]_vars

\* C2 witness: a viewer of a registered room has just been denied.
C2_Witness ==
  /\ Len(out) = 1 /\ out[1].ev = "permission-denied"
  /\ \E c \in out[1].to :
       /\ MapHas(rooms, socket[c].roomId)
       /\ c \in heap[MapGet(rooms, socket[c].roomId)].normalUsers
       /\ c \notin heap[MapGet(rooms, socket[c].roomId)].admins

\* C3: when a room's admin set becomes empty the grace timer starts; a socket
\* joining as admin while it is pending cancels it and the room stays
\* registered; when it fires the room is destroyed with reason no_admin, every
\* connected member is told so, and the room is no longer in the registry.
C3_GraceTimer ==
  [][\A o \in DOMAIN heap :
       /\ (heap[o].admins # {} /\ heap'[o].admins = {})
            => /\ heap'[o].autoDestroyTimer.active
               /\ heap'[o].autoDestroyTimer.due = now + GraceMin
       /\ (heap[o].autoDestroyTimer.active /\ heap[o].admins = {} /\ heap'[o].admins # {})
            => /\ ~heap'[o].autoDestroyTimer.active
               /\ heap'[o].destroyed = << >>
               /\ InRegistry(o) => InRegistry(o)'
       /\ FireAutoDestroy(o)
            => /\ heap'[o].destroyed = <<"no_admin">>
               /\ \A c \in Members(heap[o]) \cap Open(socket) :
                    Notified(out', c, o, "no_admin")
               /\ ~InRegistry(o)'
               /\ ~MapHas(rooms', heap[o].roomId)]_vars

\* C3 witness: the grace timer has just fired and a viewer was told.
C3_Witness ==
  \E o \in DOMAIN heap :
    /\ heap[o].destroyed = <<"no_admin">>
    /\ \E c \in heap[o].normalUsers : Notified(out, c, o, "no_admin")

\* C4: a room is destroyed with reason no_admin only when its admin set is
\* empty at that moment.
C4_NoAdminOnlyWhenEmpty ==
  [][\A o \in DOMAIN heap : DestroyedNow(o, "no_admin") => heap[o].admins = {}]_vars

\* C4 witness: a room was destroyed for lack of an admin while another socket
\* had joined it in between.
C4_Witness ==
  \E o \in DOMAIN heap :
    /\ Destroyed(heap, o, "no_admin")
    /\ heap[o].admins = {}
    /\ heap[o].normalUsers # {}
    /\ out[Len(out)].ev = "rooms.delete"

\* a join-room of socket c has just succeeded into object o
JoinedNow(c, o) ==
  /\ Len(out') = 3
  /\ out'[1].ev = "session.bind" /\ out'[1].data.socket = c
  /\ out'[2].ev = "room-joined"
  /\ MapHas(rooms, out'[2].data.roomId)
  /\ MapGet(rooms, out'[2].data.roomId) = o

\* a join-room of socket c has just been rejected
JoinRejectedNow(c) ==
  \E n \in JoinNames, j \in JoiningIds, p \in JoinPasswords, u \in Usernames :
    /\ JoinRoom(c, n, j, p, u)
    /\ out'[1].ev = "join-error"

\* C5 as claimed: a room created with duration 0 is never destroyed with reason
\* duration_expired, and join-room never rejects it as expired.
C5_ZeroDurationNeverExpires ==
  [][/\ \A o \in DOMAIN heap :
          heap[o].duration = 0 => ~DestroyedNow(o, "duration_expired")
     /\ \A c \in Sockets, n \in JoinNames, j \in JoiningIds, p \in JoinPasswords,
           u \in Usernames :
          (/\ JoinRoom(c, n, j, p, u)
           /\ \E i \in 1..Len(rooms) : /\ heap[rooms[i].val].duration = 0
                                       /\ heap[rooms[i].val].roomName = n
                                       /\ heap[rooms[i].val].joiningId = j)
          => out'[1].ev # "join-error"]_vars

\* what C6 says of a rejected join: the error goes to the requester alone and
\* no room's membership, no session and no timer changes
RejectionIsSilent ==
  \A c \in Sockets :
    JoinRejectedNow(c) => /\ Len(out') = 1 /\ out'[1].to = {c}
                          /\ heap' = heap /\ socket' = socket /\ rooms' = rooms

\* and of a join that matches no room that is still within its duration
NoMatchIsRejected ==
  \A c \in Sockets, n \in JoinNames, j \in JoiningIds, p \in JoinPasswords,
     u \in Usernames :
    (/\ JoinRoom(c, n, j, p, u)
     /\ ~\E i \in 1..Len(rooms) :
           /\ heap[rooms[i].val].roomName = n
           /\ heap[rooms[i].val].joiningId = j
           /\ now <= heap[rooms[i].val].createdAt + heap[rooms[i].val].duration)
    => out'[1].ev = "join-error"

\* C6 as claimed: a room created with a bounded duration D is not joined once D
\* has elapsed since its creation, and a rejected join changes nothing.
C6_NoJoinOnceElapsed ==
  [][/\ \A c \in Sockets, o \in DOMAIN heap :
          (JoinedNow(c, o) /\ heap[o].duration > 0)
          => now - heap[o].createdAt < heap[o].duration
     /\ RejectionIsSilent
     /\ NoMatchIsRejected]_vars

\* C6 as amended: a room created with duration D is not joined once more than D
\* has elapsed since its creation (at the reading createdAt + D itself it still
\* is, when nothing has removed it yet); a join that matches no room within its
\* duration is rejected, and a rejected join sends the error to the requester
\* alone and changes no membership, session or timer.
C6_NoJoinAfterExpiry ==
  [][/\ \A c \in Sockets, o \in DOMAIN heap :
          JoinedNow(c, o) => now - heap[o].createdAt <= heap[o].duration
     /\ RejectionIsSilent
     /\ NoMatchIsRejected]_vars

\* C6 witness: a join has just been rejected while a room whose bounded duration
\* has run out is still in the registry.
C6_Witness ==
  /\ Len(out) = 1 /\ out[1].ev = "join-error"
  /\ \E o \in DOMAIN heap : /\ InRegistry(o) /\ heap[o].duration > 0
                            /\ now > heap[o].createdAt + heap[o].duration

\* socket c is told of room o's destruction before o's registry entry is deleted
NotifiedBeforeDelete(msgs, c, o, reason) ==
  \E i, k \in 1..Len(msgs) :
    /\ i < k
    /\ msgs[i].ev = "room-destroyed" /\ msgs[i].data.room = o
    /\ msgs[i].data.reason = reason /\ c \in msgs[i].to
    /\ msgs[k].ev = "rooms.delete" /\ msgs[k].data.room = o

\* object o is a room with a positive duration whose timer deadline lies within
\* the explored readings
BoundedRoom(o) ==
  IF o \in DOMAIN heap
  THEN heap[o].duration > 0 /\ heap[o].roomDestructionTimer.due <= MaxMinutes
  ELSE FALSE

Gone(o) == IF o \in DOMAIN heap THEN heap[o].destroyed # << >> ELSE FALSE

C8_DestroyedOnceNotifiedOnce ==
  \A o \in DOMAIN heap :
    /\ Len(heap[o].destroyed) <= 1
    /\ heap[o].destroyed # << >>
         => /\ ~heap[o].autoDestroyTimer.active
            /\ ~heap[o].roomDestructionTimer.active
    /\ \A c \in Sockets :
         Cardinality({i \in 1..Len(out) : /\ out[i].ev = "room-destroyed"
                                          /\ out[i].data.room = o
                                          /\ c \in out[i].to}) <= 1

\* C9 as claimed: a socket is a member of at most one registered room, and a
\* socket that has disconnected is a member of none.
C9_AtMostOneRoom ==
  \A c \in Sockets :
    /\ Cardinality({o \in DOMAIN heap : InRegistry(o) /\ c \in Members(heap[o])}) <= 1
    /\ ~socket[c].open
         => \A o \in DOMAIN heap : InRegistry(o) => c \notin Members(heap[o])

\* C10 as claimed: in a registered room no socket is both admin and viewer, so
\* totalUsers is the number of distinct members.
C10_RolesPartition ==
  \A o \in DOMAIN heap :
    InRegistry(o)
    => /\ heap[o].admins \cap heap[o].normalUsers = {}
       /\ getState(heap[o], now).totalUsers = Cardinality(Members(heap[o]))

\* C11 as claimed: no two rooms share an identifier; a create-room leaves every
\* registered room registered, and a room leaves the registry only in a step
\* that destroys that very room.
C11_UniqueRoomIds ==
  [][/\ \A o1, o2 \in DOMAIN heap' : o1 # o2 => heap'[o1].roomId # heap'[o2].roomId
     /\ \A o \in DOMAIN heap :
          (InRegistry(o) /\ ~InRegistry(o)')
          => Len(heap'[o].destroyed) = Len(heap[o].destroyed) + 1]_vars

\* a join-room of socket c with password p has just succeeded into object o
JoinedWith(c, o, p) ==
  /\ \E n \in JoinNames, j \in JoiningIds, u \in Usernames : JoinRoom(c, n, j, p, u)
  /\ JoinedNow(c, o)

\* C12: a socket enters the admin set of an existing room only by a join-room
\* whose password is the room's stored admin password; a join-room with any
\* other password grants the role user and puts the socket among the viewers;
\* a new room's admin set is exactly its creator, whose session role is admin.
C12_AdminOnlyByPassword ==
  [][/\ \A o \in DOMAIN heap, c \in Sockets :
          /\ (c \notin heap[o].admins /\ c \in heap'[o].admins)
               => JoinedWith(c, o, heap[o].adminPassword)
          /\ \A p \in JoinPasswords :
               (JoinedWith(c, o, p) /\ p # heap[o].adminPassword)
               => /\ out'[2].data.role = "user"
                  /\ socket'[c].userRole = "user"
                  /\ c \in heap'[o].normalUsers
                  /\ heap'[o].admins = heap[o].admins
     /\ \A o \in DOMAIN heap' \ DOMAIN heap :
          \E c \in Sockets : /\ heap'[o].admins = {c}
                             /\ out'[2].ev = "room-created"
                             /\ out'[2].to = {c}
                             /\ socket'[c].userRole = "admin"
                             /\ socket'[c].roomId = heap'[o].roomId]_vars

\* C12 witness: in one room a socket that joined with the matching password is
\* an admin next to the creator, after a join that was given the role user.
C12_Witness ==
  /\ Len(out) = 3 /\ out[2].ev = "room-joined" /\ out[2].data.role = "user"
  /\ \E o \in DOMAIN heap : /\ heap[o].roomId = out[2].data.roomId
                            /\ InRegistry(o)
                            /\ heap[o].admins = Sockets
                            /\ out[2].to \subseteq heap[o].normalUsers

\* C13: a disconnect adds no socket to any room's admin set, and a viewer that
\* is not an admin stays out of the admin set in every step other than its own
\* join-room, also while the admin set is empty.
C13_NoAutoPromotion ==
  [][/\ \A c \in Sockets :
          Disconnect(c) => \A o \in DOMAIN heap : heap'[o].admins \subseteq heap[o].admins
     /\ \A o \in DOMAIN heap, c \in Sockets :
          (/\ c \in heap[o].normalUsers \ heap[o].admins
           /\ ~JoinedNow(c, o))
          => /\ c \notin heap'[o].admins
             /\ c \in heap'[o].normalUsers \/ Disconnect(c)]_vars

\* C13 witness: the last admin has just disconnected and the viewer it leaves
\* behind is still a viewer of a room without admins.
C13_Witness ==
  /\ Len(out) = 1 /\ out[1].ev = "user-left" /\ out[1].data.noAdminWarning
  /\ \E o \in DOMAIN heap : /\ InRegistry(o) /\ heap[o].admins = {}
                            /\ heap[o].normalUsers # {}
                            /\ heap[o].normalUsers \subseteq Open(socket)

\* a join-room of socket c has just succeeded
JoinSucceeded(c) ==
  /\ \E n \in JoinNames, j \in JoiningIds, p \in JoinPasswords, u \in Usernames :
       JoinRoom(c, n, j, p, u)
  /\ out'[1].ev # "join-error"

\* C14 as claimed: a successful join-room first binds the session to the resolved room and
\* role, then sends room-joined to the joiner alone, then user-joined to the
\* room (the joiner included); the snapshot counts the joiner, so the snapshot
\* of a socket that joins a room with one other member has totalUsers = 2.
C14_JoinOrder ==
  [][\A c \in Sockets :
       JoinSucceeded(c)
       => /\ Len(out') = 3
          /\ out'[1].ev = "session.bind" /\ out'[1].data.socket = c
          /\ out'[2].ev = "room-joined" /\ out'[2].to = {c}
          /\ out'[3].ev = "user-joined" /\ c \in out'[3].to
          /\ socket'[c].roomId = out'[1].data.roomId
          /\ socket'[c].userRole = out'[1].data.role
          /\ out'[2].data.roomId = out'[1].data.roomId
          /\ out'[2].data.role = out'[1].data.role
          /\ MapHas(rooms, out'[1].data.roomId)
          /\ LET o == MapGet(rooms, out'[1].data.roomId)
                 st == out'[2].data.state
             IN /\ c \in Members(heap'[o])
                /\ st.adminCount = Cardinality(heap'[o].admins)
                /\ st.userCount = Cardinality(heap'[o].normalUsers)
                /\ st.totalUsers = st.adminCount + st.userCount
                /\ (\E d \in Sockets \ {c} : Members(heap[o]) = {d})
                     => st.totalUsers = 2]_vars

\* the position an observer is owed: the stored one when paused, the stored one
\* plus the seconds since the last write when playing
Reconciled(r, t) ==
  IF r.isPlaying THEN r.currentTime + (t - r.lastUpdate) * 60 ELSE r.currentTime

\* an admin's play, pause, seek or video-change on object o
AdminWrite(c, o) ==
  /\ \/ \E t \in Times : Play(c, t) \/ Pause(c, t) \/ Seek(c, t)
     \/ \E v \in VideoIds : VideoChange(c, v)
  /\ RoomOf(c) = o
  /\ c \in heap[o].admins

\* C15: the position in room-created, room-joined and sync-state is the stored
\* position when the room is paused and the stored position plus the time since
\* the last write when it is playing; every admin write stamps lastUpdate with
\* the current clock reading.
C15_ReconciledPosition ==
  [][/\ \A c \in Sockets :
          /\ (RequestSync(c) /\ RoomOf(c) # 0)
               => /\ out'[1].ev = "sync-state"
                  /\ out'[1].data.currentTime = Reconciled(heap[RoomOf(c)], now)
                  /\ out'[1].data.isPlaying = heap[RoomOf(c)].isPlaying
          /\ JoinSucceeded(c)
               => out'[2].data.state.currentTime
                    = Reconciled(heap[MapGet(rooms, out'[2].data.roomId)], now)
     /\ \A o \in DOMAIN heap' \ DOMAIN heap :
          out'[2].data.state.currentTime = Reconciled(heap'[o], now)
     /\ \A c \in Sockets, o \in DOMAIN heap :
          AdminWrite(c, o) => heap'[o].lastUpdate = now]_vars

\* C15 witness: a sync-state has just reported a position ahead of the stored
\* one, for a room that has been playing since an earlier reading.
C15_Witness ==
  /\ Len(out) = 1 /\ out[1].ev = "sync-state" /\ out[1].data.isPlaying
  /\ \E c \in out[1].to :
       /\ RoomOf(c) # 0
       /\ heap[RoomOf(c)].lastUpdate < now
       /\ out[1].data.currentTime
            = heap[RoomOf(c)].currentTime + (now - heap[RoomOf(c)].lastUpdate) * 60

\* C16: the SIGTERM handler destroys every room of the registry with reason
\* server_shutdown, tells each connected member before deleting the entry, and
\* leaves the registry empty when it closes the listening socket.
C16_ShutdownDestroysAll ==
  [][Sigterm
     => /\ rooms' = << >>
        /\ phase' = "closing"
        /\ \A o \in DOMAIN heap :
             InRegistry(o)
             => /\ DestroyedNow(o, "server_shutdown")
                /\ \A c \in Members(heap[o]) \cap Open(socket) :
                     NotifiedBeforeDelete(out', c, o, "server_shutdown")]_vars

\* C16 witness: the handler has just destroyed two registered rooms and told a
\* member of each.
C16_Witness ==
  /\ phase = "closing"
  /\ rooms = << >>
  /\ \E o1, o2 \in DOMAIN heap :
       /\ o1 # o2
       /\ \A o \in {o1, o2} :
            /\ heap[o].destroyed = <<"server_shutdown">>
            /\ \E c \in Members(heap[o]) :
                 NotifiedBeforeDelete(out, c, o, "server_shutdown")

\* object o is a registered room without admins whose grace deadline lies
\* within the explored readings
Orphaned(o) ==
  IF o \in DOMAIN heap
  THEN /\ InRegistry(o) /\ heap[o].admins = {}
       /\ heap[o].autoDestroyTimer.due <= MaxMinutes
  ELSE FALSE

HasAdmin(o) == IF o \in DOMAIN heap THEN heap[o].admins # {} ELSE FALSE

\* C17: a room in the registry whose admin set is empty has a pending no-admin
\* grace timer, and (while the process runs, for deadlines within the explored
\* readings) such a room is eventually destroyed or gets an admin.
C17_NeverOrphaned ==
  /\ [](\A o \in DOMAIN heap :
         (InRegistry(o) /\ heap[o].admins = {}) => heap[o].autoDestroyTimer.active)
  /\ \A o \in Objects :
       [](Orphaned(o) => <>(Gone(o) \/ HasAdmin(o) \/ phase = "exited"))

\* C17 witness: a registered room has lost its only member, an admin, and its
\* grace timer is pending.
C17_Witness ==
  \E o \in DOMAIN heap :
    /\ InRegistry(o)
    /\ Members(heap[o]) = {}
    /\ heap[o].autoDestroyTimer.active
    /\ heap[o].autoDestroyTimer.due = now + GraceMin

\* C18 as claimed: whatever events with missing fields arrive, the process does
\* not die and no room's position or current video is undefined.
C18_MalformedHarmless ==
  /\ phase # "crashed"
  /\ \A o \in DOMAIN heap : /\ heap[o].currentTime # Undefined
                            /\ heap[o].currentVideo # UndefinedVideo

\* C19: an admin's seek changes the position and the last-update timestamp of
\* its room and nothing else, the playing flag included; while a room is
\* paused the observed position is the stored one at every later reading; an
\* admin's video-change sets the current video, pauses and puts the position
\* at 0.
C19_SeekAndVideoChange ==
  /\ [][\A c \in Sockets, o \in DOMAIN heap :
          (RoomOf(c) = o /\ c \in heap[o].admins)
          => /\ \A t \in Times :
                  Seek(c, t)
                  => heap' = [heap EXCEPT ![o] =
                                [@ EXCEPT !.currentTime = t, !.lastUpdate = now]]
             /\ \A v \in VideoIds :
                  VideoChange(c, v)
                  => heap' = [heap EXCEPT ![o] =
                                [@ EXCEPT !.currentVideo = v, !.isPlaying = FALSE,
                                          !.currentTime = 0, !.lastUpdate = now]]]_vars
  /\ [](\A o \in DOMAIN heap :
          ~heap[o].isPlaying
          => \A t \in Readings : getState(heap[o], t).currentTime = heap[o].currentTime)

\* C19 witness: an admin has just sought in a room that is playing, and the
\* room is still playing, at the sought position.
C19_Witness ==
  /\ Len(out) = 1 /\ out[1].ev = "seek"
  /\ \E o \in DOMAIN heap : /\ InRegistry(o)
                            /\ heap[o].isPlaying
                            /\ heap[o].currentTime \in Times
                            /\ heap[o].lastUpdate = now
                            /\ now > heap[o].createdAt

\* C20 as claimed: a room with a positive duration is destroyed with reason
\* duration_expired only once the clock has reached its expiresAt.
C20_NotBeforeExpiresAt ==
  [][\A o \in DOMAIN heap :
       (DestroyedNow(o, "duration_expired") /\ heap[o].duration > 0)
       => now >= heap[o].expiresAt]_vars

====
